---- MODULE Spec2Model ----
(***************************************************************************)
(* Model of the messaging service of home_works/web_socket.py: the users   *)
(* table, the WebSocketManager registry (a Python dict iterated while it   *)
(* can change) and the per-connection handler handle_websocket_connection. *)
(*                                                                         *)
(* The program is a single asyncio event loop: code between two awaits     *)
(* runs without interruption.  `running` names the handler that holds the  *)
(* event loop between two steps of one such stretch; every other step      *)
(* needs running = 0.                                                      *)
(***************************************************************************)
EXTENDS Integers, Sequences, FiniteSets, TLC

\* ---------------------------------------------------------------- bounds
MaxConns == 3          \* connection attempts (handler instances) in one run
MaxFrames == 1         \* inbound client frames in one run
MaxCloses == 1         \* transports closed by their peer in one run
MaxEntries == 4        \* entries, dead ones included, of a registry taken alone
MaxOrderFrames == 2    \* inbound frames in a run that starts with two users connected
MaxJobs == 5           \* jobs scheduled on job_queue in one run
MaxRequests == 3       \* HTTP requests received by the middleware stack in one run

Conns == 1..MaxConns
\* The names and the tokens, in the order of their first signup: names and
\* tokens are opaque to the program, so one order stands for all.
NameSeq == <<"ann", "bob", "cy">>
TokenSeq == <<"t1", "t2", "t3">>
Names == {NameSeq[i] : i \in DOMAIN NameSeq}
Tokens == {TokenSeq[i] : i \in DOMAIN TokenSeq}
None == "None"
NoConn == 0

\* Message bodies a client may put in "message"; <<>> is the empty string.
Bodies == { <<>>, <<"<", "b">> }
\* Values of "to": "" stands for null, absent and the empty string (all falsy).
Recipients == Names \cup {""}

VARIABLES
    users,               \* rows of the sqlite table users, in rowid order
    active_connections,  \* WebSocketManager.active_connections (dict entries)
    pc,                  \* where each handler stands
    hname, htoken,       \* the path parameters name and token of each handler
    peerClosed,          \* the peer has closed the connection's transport
    closeCode,           \* code of websocket.close sent by the handler, 0 if none
    iter,                \* the dict iterator and message of a running broadcast
    local,               \* locals of the handler across the unicast's await
    inbox,               \* frames delivered to each connection, in order
    nframes,             \* inbound frames received so far
    running,             \* handler holding the event loop, 0 at an await
    op,                  \* history: the operation each handler ran last
    teardowns,           \* history: terminate_connection calls of each handler
    resp,                \* the last call on the account store and its answer
    issued,              \* history: the tokens signups have returned
    regop,               \* history: the last call on the registry, taken alone
    wire,                \* one frame's inputs and the text sent for them
    upload,              \* file_upload.py: one POST /check_file_attrs/
    jobs,                \* background.py: job_queue and its worker
    mw                   \* middleware.py: trace_id_var and the requests

\* The state of the chat (web_socket.py) as its handlers interleave.
chatVars == << users, active_connections, pc, hname, htoken, peerClosed,
               closeCode, iter, local, inbox, nframes, running, op, teardowns >>
\* What the specifications of single calls keep beside it.
auxVars == << resp, issued, regop, wire, upload, jobs, mw >>

vars == << chatVars, auxVars >>

\* ------------------------------------------------------------- helpers
Min(a, b) == IF a < b THEN a ELSE b

\* ------------------------------------------------------------- sanitize
MaxBodyLen == 500

\* A slice that keeps everything.
TruncateNone(s) == s

\* data.get("message", "")[:500]
Truncate(s) == SubSeq(s, 1, Min(Len(s), MaxBodyLen))

\* html.escape of one character (quote=True)
EscapeChar(ch) ==
    CASE ch = "&" -> <<"&", "a", "m", "p", ";">>
      [] ch = "<" -> <<"&", "l", "t", ";">>
      [] ch = ">" -> <<"&", "g", "t", ";">>
      [] ch = "\"" -> <<"&", "q", "u", "o", "t", ";">>
      [] ch = "'" -> <<"&", "#", "x", "2", "7", ";">>
      [] OTHER -> <<ch>>

RECURSIVE HtmlEscape(_)
HtmlEscape(s) ==
    IF s = <<>> THEN <<>>
    ELSE IF Len(s) = 1 THEN EscapeChar(s[1])
    ELSE LET h == Len(s) \div 2 IN
         HtmlEscape(SubSeq(s, 1, h)) \o HtmlEscape(SubSeq(s, h + 1, Len(s)))

\* A sanitizer that never yields the empty text.
SanitizePadded(body) == HtmlEscape(Truncate(body)) \o <<" ">>

\* content = html.escape(data.get("message", "")[:500])
Sanitize(body) == HtmlEscape(Truncate(body))

\* ------------------------------------------------------- account store
\* A lookup that finds every token.
VerifyAccessTokenAlways(token) == token

\* A lookup that finds no token.
VerifyAccessTokenNever(token) == None

\* verify_access_token: the token of the first row with that token, or None.
VerifyAccessToken(token) ==
    IF \E i \in DOMAIN users : users[i].token = token THEN token ELSE None

\* SELECT token FROM users WHERE name = ?  (fetchone: the first row, or None)
LookupToken(name) ==
    IF \E i \in DOMAIN users : users[i].name = name
    THEN users[CHOOSE i \in DOMAIN users :
                 /\ users[i].name = name
                 /\ \A j \in DOMAIN users : users[j].name = name => i <= j].token
    ELSE None

\* A check that finds no name taken.
NameExistsNever(name) == FALSE

\* SELECT 1 FROM users WHERE name = ?
NameExists(name) == \E i \in DOMAIN users : users[i].name = name
TokenExists(token) == \E i \in DOMAIN users : users[i].token = token

\* ------------------------------------------------------------ the dict
(* A CPython dict keeps its entries in insertion order.  pop leaves a dead  *)
(* entry in place, a new key is appended, an existing key keeps its place.  *)
(* (CPython compacts the entries when it resizes, at the sixth insertion    *)
(* into a dict that started empty; MaxConns keeps a run below that.)        *)
Tombstone == [key |-> None, val |-> NoConn]

DictLive(d) == {i \in DOMAIN d : d[i].val # NoConn}
DictUsed(d) == Cardinality(DictLive(d))
DictKeys(d) == {d[i].key : i \in DictLive(d)}
DictHas(d, k) == k \in DictKeys(d)
DictIndex(d, k) == CHOOSE i \in DictLive(d) : d[i].key = k
DictGet(d, k) == d[DictIndex(d, k)].val

\* d[k] = v
DictSet(d, k, v) ==
    IF DictHas(d, k) THEN [d EXCEPT ![DictIndex(d, k)].val = v]
    ELSE Append(d, [key |-> k, val |-> v])

\* A pop that takes the oldest entry, whatever the key.
DictPopOldest(d, k) ==
    IF DictLive(d) = {} THEN d
    ELSE [d EXCEPT ![CHOOSE i \in DictLive(d) :
                        \A j \in DictLive(d) : i <= j] = Tombstone]

\* d.pop(k, None)
DictPop(d, k) ==
    IF DictHas(d, k) THEN [d EXCEPT ![DictIndex(d, k)] = Tombstone] ELSE d

RECURSIVE ScanLive(_, _)
\* Index of the first live entry at or after i, 0 when there is none.
ScanLive(d, i) ==
    IF i > Len(d) THEN 0
    ELSE IF d[i].val # NoConn THEN i ELSE ScanLive(d, i + 1)

(* next() of a dict items iterator: it fails when the dict's size differs   *)
(* from the size at the iterator's creation, stops after the last entry,    *)
(* and fails when it finds more entries than the dict held at creation.     *)
DictIterNext(d, it) ==
    IF it.used # DictUsed(d)
    THEN [res |-> "RuntimeError", pos |-> it.pos, len |-> it.len]
    ELSE LET i == ScanLive(d, it.pos + 1) IN
         IF i = 0 THEN [res |-> "StopIteration", pos |-> it.pos, len |-> it.len]
         ELSE IF it.len = 0
              THEN [res |-> "RuntimeError", pos |-> it.pos, len |-> it.len]
              ELSE [res |-> "item", pos |-> i, len |-> it.len - 1]

\* An iterator that starts after the first entry.
DictIterSkipFirst(d) == [pos |-> 1, used |-> DictUsed(d), len |-> DictUsed(d)]

\* iter(d.items())
DictIter(d) == [pos |-> 0, used |-> DictUsed(d), len |-> DictUsed(d)]

\* A loop that forgets the exclude set: every entry is sent to.
BroadcastNextNoExclude(d, it) == DictIterNext(d, it)

\* for token, websocket in d.items(): if exclude and token in exclude: continue
RECURSIVE BroadcastNext(_, _)
BroadcastNext(d, it) ==
    LET r == DictIterNext(d, it) IN
    IF r.res = "item" /\ d[r.pos].key \in it.excl
    THEN BroadcastNext(d, [it EXCEPT !.pos = r.pos, !.len = r.len])
    ELSE r

\* ------------------------------------------------------------- frames
(* A text frame the server sends.  fmt and name and body are the text:      *)
(*   joined  "{name} подключился к чату"     left  "{name} покинул чат"     *)
(*   msg     "{name} >>> {body}"             echo  "Вы >>> {body}"          *)
(*   offline "Пользователь {name} не в сети."                               *)
(* by and id are history: the handler that sent it and the number of the    *)
(* inbound frame it answers (0 for a presence notice).                      *)
Frame(fmt, name, body, by, id) ==
    [fmt |-> fmt, name |-> name, body |-> body, by |-> by, id |-> id]
NoFrame == Frame("none", "", <<>>, 0, 0)

NoIter == [pos |-> 0, used |-> 0, len |-> 0, excl |-> {}, frame |-> NoFrame]
NoLocal == [content |-> <<>>, id |-> 0]
NoOp == [kind |-> "none", id |-> 0, view |-> <<>>, state |-> "done",
         failed |-> {}, target |-> 0]

\* Inbound frames: a JSON object {"to": ..., "message": ...}, or a frame that
\* receive_json or the handler cannot decode.
InboundFrames ==
    {[ok |-> TRUE, to |-> r, message |-> b] : r \in Recipients, b \in Bodies}
    \cup {[ok |-> FALSE, to |-> "", message |-> <<>>]}

Finished == {"rejected", "closed", "crashed"}
InLoop == {"join", "bcast", "left"}
Active == {"join", "recv", "bcast", "echo", "except", "left"}

(* What websocket.send_text does.  To an open transport it delivers.  To a  *)
(* transport whose peer has gone the outcome depends on the server and its  *)
(* version: the text is written and lost, or send_text raises               *)
(* WebSocketDisconnect, or it raises another exception.                     *)
Alive(w) == pc[w] \in Active /\ ~peerClosed[w]

SendOutcomes(w) ==
    IF Alive(w) THEN {"ok"}
    ELSE IF pc[w] \in Finished THEN {"WebSocketDisconnect", "RuntimeError"}
    ELSE {"lost", "WebSocketDisconnect", "RuntimeError"}

\* A transport that hands the newest frame over first.
DeliverFirst(ib, w, fr) == [ib EXCEPT ![w] = <<fr>> \o @]

Deliver(ib, w, fr) == [ib EXCEPT ![w] = Append(@, fr)]

\* Nothing asked yet of the signup endpoint, the registry, the formatter
\* and the upload endpoint.
NoResponse == [call |-> "none", arg |-> "", status |-> 0, token |-> None,
               len |-> 0]
NoRegOp == [kind |-> "none", key |-> None, before |-> <<>>]
NoWire == [stage |-> "idle", fmt |-> "none", name |-> <<>>, to |-> <<>>,
           message |-> <<>>, text |-> <<>>]
NoUpload == [stage |-> "idle", size |-> 0, content_type |-> "None",
             filename |-> <<>>, width |-> 0, height |-> 0,
             status |-> 0, body |-> <<>>, tasks |-> <<>>]

\* background.py: no job scheduled, the worker waiting in job_queue.get().
NoJobs == [queue |-> <<>>, unfinished |-> 0, scheduled |-> 0, ran |-> <<>>,
           worker |-> 0]
\* middleware.py: trace_id_var = {} and no request received.
\* (0 stands for no trace id: the key is absent, or the header is.)
NoRequests == [trace_id_var |-> 0, req |-> <<>>]

\* ---------------------------------------------------------------- Init
Init ==
    /\ users = <<>>
    /\ active_connections = <<>>
    /\ pc = [c \in Conns |-> "init"]
    /\ hname = [c \in Conns |-> ""]
    /\ htoken = [c \in Conns |-> None]
    /\ peerClosed = [c \in Conns |-> FALSE]
    /\ closeCode = [c \in Conns |-> 0]
    /\ iter = [c \in Conns |-> NoIter]
    /\ local = [c \in Conns |-> NoLocal]
    /\ inbox = [c \in Conns |-> <<>>]
    /\ nframes = 0
    /\ running = 0
    /\ op = [c \in Conns |-> NoOp]
    /\ teardowns = [c \in Conns |-> 0]
    /\ resp = NoResponse
    /\ issued = {}
    /\ regop = NoRegOp
    /\ wire = NoWire
    /\ upload = NoUpload
    /\ jobs = NoJobs
    /\ mw = NoRequests

\* ------------------------------------------------------------- actions
(* What a signup may be given: the first name (registered already after    *)
(* the first signup) or the next new name, with the first token             *)
(* (secrets.token_urlsafe repeats one it issued) or the next new token.     *)
SignupInputs ==
    {<<NameSeq[i], TokenSeq[j]>> :
        i \in {k \in DOMAIN NameSeq : k \in {1, Len(users) + 1}},
        j \in {k \in DOMAIN TokenSeq : k \in {1, Len(users) + 1}}}

\* POST /signup/{name}: create_user_account, with the token it drew.
Signup(n, t) ==
    /\ running = 0
    /\ <<n, t>> \in SignupInputs
    /\ users' = IF NameExists(n) \/ TokenExists(t)
                THEN users      \* HTTPException(400), or the UNIQUE constraint
                ELSE Append(users, [name |-> n, token |-> t])
    /\ UNCHANGED << active_connections, pc, hname, htoken, peerClosed,
                    closeCode, iter, local, inbox, nframes, running, op,
                    teardowns >>
    /\ UNCHANGED auxVars

(* An exception leaves the handler: nothing catches it, the server closes   *)
(* the transport.                                                           *)
Crash(c) ==
    /\ pc' = [pc EXCEPT ![c] = "crashed"]
    /\ running' = 0

(* An exception raised by a send of handler c.  Inside the try block (the   *)
(* receive loop) WebSocketDisconnect reaches the except clause; anything    *)
(* else, and anything raised in establish_connection or in the except       *)
(* clause itself, leaves the handler.                                       *)
Raise(c, exc) ==
    IF exc = "WebSocketDisconnect" /\ pc[c] \in {"recv", "bcast", "echo"}
    THEN /\ pc' = [pc EXCEPT ![c] = "except"]
         /\ running' = c
    ELSE Crash(c)

(* What a handshake may present, one pair of each kind: an issued token    *)
(* under its owner's name; the first token under the second name; the next  *)
(* token not issued yet (every token not issued is refused alike).          *)
ConnectInputs ==
    {<<users[i].name, users[i].token>> : i \in DOMAIN users}
    \cup {<<NameSeq[2], TokenSeq[1]>>}
    \cup {<<NameSeq[1], TokenSeq[j]>> :
            j \in {k \in DOMAIN TokenSeq : k = Len(users) + 1}}

\* /connect/{name}/{token}: the handshake, up to the start of the join notice.
Connect(c, n, t) ==
    /\ running = 0
    /\ pc[c] = "init"
    /\ <<n, t>> \in ConnectInputs
    /\ \A b \in Conns : b < c => pc[b] # "init"   \* handlers are numbered as they start
    /\ hname' = [hname EXCEPT ![c] = n]
    /\ htoken' = [htoken EXCEPT ![c] = t]
    /\ IF VerifyAccessToken(t) # t
       THEN /\ closeCode' = [closeCode EXCEPT ![c] = 1008]
            /\ pc' = [pc EXCEPT ![c] = "rejected"]
            /\ UNCHANGED << active_connections, iter, running, op >>
       ELSE LET d == DictSet(active_connections, t, c) IN
            /\ active_connections' = d
            /\ iter' = [iter EXCEPT ![c] =
                   DictIter(d) @@ [excl |-> {t},
                                   frame |-> Frame("joined", n, <<>>, c, 0)]]
            /\ op' = [op EXCEPT ![c] = [kind |-> "join", id |-> 0, view |-> d,
                                        state |-> "running", failed |-> {},
                                        target |-> 0]]
            /\ pc' = [pc EXCEPT ![c] = "join"]
            /\ running' = c
            /\ UNCHANGED closeCode
    /\ UNCHANGED << users, peerClosed, local, inbox, nframes, teardowns >>
    /\ UNCHANGED auxVars

(* One turn of the loop of send_broadcast_message, from the end of the      *)
(* previous await to the next: the iterator advances past the excluded      *)
(* tokens, and the loop ends, or fails, or sends to the next connection.    *)
LoopStep(c) ==
    /\ pc[c] \in InLoop
    /\ running \in {0, c}
    /\ LET r == BroadcastNext(active_connections, iter[c]) IN
       CASE r.res = "StopIteration" ->
              \* join and message: back to receive_json; left: the handler returns
              /\ pc' = [pc EXCEPT ![c] = IF pc[c] = "left" THEN "closed" ELSE "recv"]
              /\ running' = 0
              /\ op' = [op EXCEPT ![c].state = "done"]
              /\ UNCHANGED << iter, inbox >>
         [] r.res = "RuntimeError" ->
              \* dictionary changed size during iteration
              /\ Crash(c)
              /\ op' = [op EXCEPT ![c].state = "fault"]
              /\ UNCHANGED << iter, inbox >>
         [] r.res = "item" ->
              LET w == active_connections[r.pos].val IN
              \E o \in SendOutcomes(w) :
                 /\ iter' = [iter EXCEPT ![c].pos = r.pos, ![c].len = r.len]
                 /\ IF o \in {"ok", "lost"}
                    THEN /\ inbox' = IF o = "ok"
                                     THEN Deliver(inbox, w, iter[c].frame)
                                     ELSE inbox
                         /\ op' = IF o = "ok" THEN op
                                  ELSE [op EXCEPT ![c].failed = @ \cup {w}]
                         /\ running' = 0
                         /\ UNCHANGED pc
                    ELSE /\ Raise(c, o)
                         /\ op' = [op EXCEPT ![c].failed = @ \cup {w},
                                             ![c].state = "aborted"]
                         /\ UNCHANGED inbox
    /\ UNCHANGED << users, active_connections, hname, htoken, peerClosed,
                    closeCode, local, nframes, teardowns >>
    /\ UNCHANGED auxVars

(* send_private_message(frame, token) run by handler c, with what follows   *)
(* it when it returns: the handler goes on at `next`.                       *)
SendPrivate(c, token, fr, next) ==
    IF DictHas(active_connections, token)
    THEN LET w == DictGet(active_connections, token) IN
         \E o \in SendOutcomes(w) :
            /\ op' = [op EXCEPT ![c] =
                   [kind |-> IF fr.fmt = "offline" THEN "offline" ELSE "ucast",
                    id |-> fr.id, view |-> active_connections,
                    state |-> IF o \in {"ok", "lost"}
                              THEN (IF next = "recv" THEN "done" ELSE "running")
                              ELSE "aborted",
                    failed |-> (IF fr.fmt = "echo" THEN op[c].failed ELSE {})
                               \cup (IF o = "ok" THEN {} ELSE {w}),
                    target |-> IF fr.fmt = "echo" THEN op[c].target ELSE w]]
            /\ IF o \in {"ok", "lost"}
               THEN /\ inbox' = IF o = "ok" THEN Deliver(inbox, w, fr) ELSE inbox
                    /\ pc' = [pc EXCEPT ![c] = next]
                    /\ running' = 0
               ELSE /\ Raise(c, o)
                    /\ UNCHANGED inbox
    ELSE \* the token is not in the registry: nothing is sent
         /\ op' = [op EXCEPT ![c] =
                [kind |-> IF fr.fmt = "offline" THEN "offline" ELSE "ucast",
                 id |-> fr.id, view |-> active_connections, state |-> "done",
                 failed |-> IF fr.fmt = "echo" THEN op[c].failed ELSE {},
                 target |-> IF fr.fmt = "echo" THEN op[c].target ELSE 0]]
         /\ pc' = [pc EXCEPT ![c] = next]
         /\ running' = 0
         /\ UNCHANGED inbox

(* receive_json returns the next inbound frame f and the handler runs the   *)
(* loop body up to its first await; max bounds the frames of one run.       *)
ReceiveUpTo(c, f, max) ==
    /\ running = 0
    /\ pc[c] = "recv"
    /\ ~peerClosed[c]
    /\ nframes < max
    /\ nframes' = nframes + 1
    /\ LET id == nframes + 1
           content == Sanitize(f.message)
           row == LookupToken(f.to)
       IN
       IF ~f.ok
       THEN \* JSONDecodeError, AttributeError or TypeError: not caught
            /\ Crash(c)
            /\ op' = [op EXCEPT ![c] = [NoOp EXCEPT !.kind = "bad", !.id = id]]
            /\ UNCHANGED << iter, local, inbox >>
       ELSE IF content = <<>>
       THEN \* if not content: continue
            /\ op' = [op EXCEPT ![c] = [NoOp EXCEPT !.kind = "empty", !.id = id]]
            /\ UNCHANGED << pc, running, iter, local, inbox >>
       ELSE IF f.to # ""
       THEN IF row # None /\ DictHas(active_connections, row)
            THEN /\ SendPrivate(c, row,
                                Frame("msg", hname[c], content, c, id), "echo")
                 /\ local' = [local EXCEPT ![c] = [content |-> content, id |-> id]]
                 /\ UNCHANGED iter
            ELSE /\ SendPrivate(c, htoken[c],
                                Frame("offline", f.to, <<>>, c, id), "recv")
                 /\ UNCHANGED << iter, local >>
       ELSE \* send_broadcast_message(f"{name} >>> {content}", exclude={token})
            /\ iter' = [iter EXCEPT ![c] =
                   DictIter(active_connections) @@
                   [excl |-> {htoken[c]},
                    frame |-> Frame("msg", hname[c], content, c, id)]]
            /\ op' = [op EXCEPT ![c] =
                   [kind |-> "bcast", id |-> id, view |-> active_connections,
                    state |-> "running", failed |-> {}, target |-> 0]]
            /\ pc' = [pc EXCEPT ![c] = "bcast"]
            /\ running' = c
            /\ UNCHANGED << local, inbox >>
    /\ UNCHANGED << users, active_connections, hname, htoken, peerClosed,
                    closeCode, teardowns >>
    /\ UNCHANGED auxVars

Receive(c, f) == ReceiveUpTo(c, f, MaxFrames)

\* The second send of a unicast: send_private_message(f"Вы >>> {content}", token)
Echo(c) ==
    /\ running = 0
    /\ pc[c] = "echo"
    /\ SendPrivate(c, htoken[c],
                   Frame("echo", "", local[c].content, c, local[c].id), "recv")
    /\ UNCHANGED << users, active_connections, hname, htoken, peerClosed,
                    closeCode, iter, local, nframes, teardowns >>
    /\ UNCHANGED auxVars

\* The peer closes its transport.
ClientClose(c) ==
    /\ running = 0
    /\ Alive(c)
    /\ Cardinality({b \in Conns : peerClosed[b]}) < MaxCloses
    /\ peerClosed' = [peerClosed EXCEPT ![c] = TRUE]
    /\ UNCHANGED << users, active_connections, pc, hname, htoken, closeCode,
                    iter, local, inbox, nframes, running, op, teardowns >>
    /\ UNCHANGED auxVars

\* receive_json raises WebSocketDisconnect: the peer has closed.
Disconnect(c) ==
    /\ running = 0
    /\ pc[c] = "recv"
    /\ peerClosed[c]
    /\ pc' = [pc EXCEPT ![c] = "except"]
    /\ running' = c
    /\ UNCHANGED << users, active_connections, hname, htoken, peerClosed,
                    closeCode, iter, local, inbox, nframes, op, teardowns >>
    /\ UNCHANGED auxVars

(* except WebSocketDisconnect: terminate_connection(token), then the start  *)
(* of send_broadcast_message(f"{name} покинул чат").                        *)
Teardown(c) ==
    /\ running = c
    /\ pc[c] = "except"
    /\ LET d == DictPop(active_connections, htoken[c]) IN
       /\ active_connections' = d
       /\ iter' = [iter EXCEPT ![c] =
              DictIter(d) @@ [excl |-> {},
                              frame |-> Frame("left", hname[c], <<>>, c, 0)]]
       /\ op' = [op EXCEPT ![c] = [kind |-> "left", id |-> 0, view |-> d,
                                   state |-> "running", failed |-> {},
                                   target |-> 0]]
    /\ teardowns' = [teardowns EXCEPT ![c] = @ + 1]
    /\ pc' = [pc EXCEPT ![c] = "left"]
    /\ UNCHANGED << users, hname, htoken, peerClosed, closeCode, local, inbox,
                    nframes, running >>
    /\ UNCHANGED auxVars

Next ==
    \/ \E n \in Names, t \in Tokens : Signup(n, t)
    \/ \E c \in Conns, n \in Names, t \in Tokens : Connect(c, n, t)
    \/ \E c \in Conns : LoopStep(c)
    \/ \E c \in Conns, f \in InboundFrames : Receive(c, f)
    \/ \E c \in Conns : Echo(c)
    \/ \E c \in Conns : ClientClose(c)
    \/ \E c \in Conns : Disconnect(c)
    \/ \E c \in Conns : Teardown(c)

Spec == Init /\ [][Next]_vars

\* ======================================================================
\* The text of the frames
\* ======================================================================
(* A text is a sequence of characters.  A character outside ASCII is        *)
(* written by its code point, "u043f" for U+043F: one character.            *)

\* " подключился к чату"  (establish_connection)
JoinedSuffix ==
    <<" ", "u043f", "u043e", "u0434", "u043a", "u043b", "u044e", "u0447",
       "u0438", "u043b", "u0441", "u044f", " ", "u043a", " ", "u0447",
       "u0430", "u0442", "u0443">>
\* " покинул чат"
LeftSuffix ==
    <<" ", "u043f", "u043e", "u043a", "u0438", "u043d", "u0443", "u043b",
       " ", "u0447", "u0430", "u0442">>
\* " >>> "
Arrow == <<" ", ">", ">", ">", " ">>
\* "Вы"
EchoPrefix ==
    <<"u0412", "u044b">>
\* "Пользователь "  and  " не в сети."
OfflinePrefix ==
    <<"u041f", "u043e", "u043b", "u044c", "u0437", "u043e", "u0432",
       "u0430", "u0442", "u0435", "u043b", "u044c", " ">>
OfflineSuffix ==
    <<" ", "u043d", "u0435", " ", "u0432", " ", "u0441", "u0435", "u0442",
       "u0438", ".">>

\* f"{username} подключился к чату"
JoinedText(name) == name \o JoinedSuffix
\* f"{name} покинул чат"
LeftText(name) == name \o LeftSuffix
\* f"{name} >>> {content}"
MsgText(name, content) == name \o Arrow \o content
\* f"Вы >>> {content}"
EchoText(content) == EchoPrefix \o Arrow \o content
\* f"Пользователь {recipient} не в сети."
OfflineText(recipient) == OfflinePrefix \o recipient \o OfflineSuffix

\* The text of n characters ch.
Rep(ch, n) == [i \in 1..n |-> ch]

ScriptTag == <<"<", "s", "c", "r", "i", "p", "t", ">">>

\* Length of the longest body a client sends here (above the 500 kept).
LongBodyLen == 600
BodyLens == {0, 1, MaxBodyLen - 1, MaxBodyLen, MaxBodyLen + 1, LongBodyLen}

\* Values of "message": bodies of one character repeated, plain or
\* markup-significant, a script tag alone, and one that ends a long body.
TextBodies ==
    {Rep(ch, n) : ch \in {"a", "<", "\"", "&"}, n \in BodyLens}
    \cup {ScriptTag, Rep("a", MaxBodyLen - 1) \o ScriptTag}

\* Values of the path parameter name and of "to" (any text a client types).
TextNames == { <<"a", "n", "n">>, <<"b", "&", "b">>, ScriptTag }

Formats == {"joined", "left", "msg", "echo", "offline"}

(* A handshake (joined, left) or an inbound frame (msg, echo, offline)      *)
(* reaches the handler: name is the path parameter, to and message are the  *)
(* frame's fields.                                                          *)
Compose(fmt, n, to, m) ==
    /\ wire.stage # "in"
    /\ wire' = [stage |-> "in", fmt |-> fmt, name |-> n, to |-> to,
                message |-> m, text |-> <<>>]
    /\ UNCHANGED << chatVars, resp, issued, regop, upload, jobs, mw >>

(* The handler builds the frame it sends: a presence notice from the name,  *)
(* the others from the sanitized body unless that is empty.                 *)
SendText ==
    /\ wire.stage = "in"
    /\ LET content == Sanitize(wire.message) IN
       IF wire.fmt = "joined"
       THEN wire' = [wire EXCEPT !.stage = "out", !.text = JoinedText(wire.name)]
       ELSE IF wire.fmt = "left"
       THEN wire' = [wire EXCEPT !.stage = "out", !.text = LeftText(wire.name)]
       ELSE IF content = <<>>
       THEN wire' = [wire EXCEPT !.stage = "dropped"]    \* if not content: continue
       ELSE IF wire.fmt = "msg"
       THEN wire' = [wire EXCEPT !.stage = "out",
                                 !.text = MsgText(wire.name, content)]
       ELSE IF wire.fmt = "echo"
       THEN wire' = [wire EXCEPT !.stage = "out", !.text = EchoText(content)]
       ELSE wire' = [wire EXCEPT !.stage = "out", !.text = OfflineText(wire.to)]
    /\ UNCHANGED << chatVars, resp, issued, regop, upload, jobs, mw >>

NextText ==
    \/ \E fmt \in Formats, n \in TextNames, to \in TextNames, m \in TextBodies :
          Compose(fmt, n, to, m)
    \/ SendText

SpecText == Init /\ [][NextText]_vars

\* ======================================================================
\* The account store
\* ======================================================================
\* Path(min_length=2, max_length=30)
MinNameLen == 2
MaxNameLen == 30
\* secrets.token_urlsafe(32)[:32]
TokenBytes == 32
TokenSlice == 32

\* Length of token_urlsafe(n): base64 of n bytes without its padding.
UrlsafeLen(n) == (4 * n + 2) \div 3
\* Length of secrets.token_urlsafe(32)[:32]
TokenLen == Min(UrlsafeLen(TokenBytes), TokenSlice)

\* Names a signup is asked for; "a" is shorter than the path allows.
SignupNames == Names \cup {"a"}

(* POST /signup/{name} with the token the call drew: 422 from the path      *)
(* validation, 400 for a name already in the table, an IntegrityError (500) *)
(* when the drawn token is in the table already, else the row is inserted   *)
(* and the token returned.                                                  *)
CreateUserAccount(n, t) ==
    /\ IF Len(n) < MinNameLen \/ Len(n) > MaxNameLen
       THEN /\ resp' = [call |-> "signup", arg |-> n, status |-> 422,
                        token |-> None, len |-> 0]
            /\ UNCHANGED << users, issued >>
       ELSE IF NameExists(n)
       THEN /\ resp' = [call |-> "signup", arg |-> n, status |-> 400,
                        token |-> None, len |-> 0]
            /\ UNCHANGED << users, issued >>
       ELSE IF TokenExists(t)
       THEN /\ resp' = [call |-> "signup", arg |-> n, status |-> 500,
                        token |-> None, len |-> 0]
            /\ UNCHANGED << users, issued >>
       ELSE /\ users' = Append(users, [name |-> n, token |-> t])
            /\ resp' = [call |-> "signup", arg |-> n, status |-> 200,
                        token |-> t, len |-> TokenLen]
            /\ issued' = issued \cup {t}
    /\ UNCHANGED << active_connections, pc, hname, htoken, peerClosed,
                    closeCode, iter, local, inbox, nframes, running, op,
                    teardowns, regop, wire, upload, jobs, mw >>

\* verify_access_token(token), as the handshake and the test call it.
VerifyCall(t) ==
    /\ resp' = [call |-> "verify", arg |-> t, status |-> 0,
                token |-> VerifyAccessToken(t), len |-> 0]
    /\ UNCHANGED << chatVars, issued, regop, wire, upload, jobs, mw >>

NextAccounts ==
    \/ \E n \in SignupNames, t \in Tokens : CreateUserAccount(n, t)
    \/ \E t \in Tokens : VerifyCall(t)

SpecAccounts == Init /\ [][NextAccounts]_vars

\* ======================================================================
\* The registry taken alone
\* ======================================================================
(* The calls of WebSocketManager on active_connections, in any order and    *)
(* with any credential: what the handlers do to the registry, freed from    *)
(* the order the handlers do it in.                                         *)

\* self.active_connections[access_token] = websocket
RegistrySet(k, v) ==
    /\ DictHas(active_connections, k) \/ Len(active_connections) < MaxEntries
    /\ active_connections' = DictSet(active_connections, k, v)
    /\ regop' = [kind |-> "set", key |-> k, before |-> active_connections]
    /\ UNCHANGED << users, pc, hname, htoken, peerClosed, closeCode, iter,
                    local, inbox, nframes, running, op, teardowns, resp,
                    issued, wire, upload, jobs, mw >>

\* terminate_connection(access_token)
TerminateConnection(k) ==
    /\ active_connections' = DictPop(active_connections, k)
    /\ regop' = [kind |-> "remove", key |-> k, before |-> active_connections]
    /\ UNCHANGED << users, pc, hname, htoken, peerClosed, closeCode, iter,
                    local, inbox, nframes, running, op, teardowns, resp,
                    issued, wire, upload, jobs, mw >>

NextRegistry ==
    \/ \E k \in Tokens, v \in Conns : RegistrySet(k, v)
    \/ \E k \in Tokens : TerminateConnection(k)

SpecRegistry == Init /\ [][NextRegistry]_vars

\* ======================================================================
\* file_upload.py: POST /check_file_attrs/
\* ======================================================================
ALLOWED_IMAGE_TYPES == {"image/jpeg", "image/png"}
MAX_IMAGE_SIZE == 1024 * 1024 * 10
\* target_width: int = 300, target_height: int = 300
DefaultDimension == 300

\* Sizes of the uploads tried, around the limit.
UploadSizes == {0, 1, MAX_IMAGE_SIZE - 1, MAX_IMAGE_SIZE, MAX_IMAGE_SIZE + 1,
                2 * MAX_IMAGE_SIZE}
\* Content types of the uploads tried; "None": the part declares none.
ContentTypes == ALLOWED_IMAGE_TYPES \cup {"image/webp", "text/plain", "None"}
\* File names, as their parts between dots.
FileNames == { <<"photo", "jpg">>, <<"a", "b", "png">>, <<"noext">> }
\* Values of the query parameters target_width and target_height.
Dimensions == {DefaultDimension, 600}

\* filename.split(".")[-1]
LastPart(parts) == parts[Len(parts)]

\* A handler that looks at the content type before the size.
UploadStatusTypeFirst(size, content_type) ==
    IF content_type \notin ALLOWED_IMAGE_TYPES THEN 400
    ELSE IF size > MAX_IMAGE_SIZE THEN 413
    ELSE 200

\* The status validate_file_upload answers with: its two checks, in order.
UploadStatus(size, content_type) ==
    IF size > MAX_IMAGE_SIZE THEN 413
    ELSE IF content_type \notin ALLOWED_IMAGE_TYPES THEN 400
    ELSE 200

\* A client posts a file; the request has its own BackgroundTasks, empty.
PostUpload(size, content_type, filename, width, height) ==
    /\ upload.stage # "posted"
    /\ upload' = [stage |-> "posted", size |-> size,
                  content_type |-> content_type, filename |-> filename,
                  width |-> width, height |-> height,
                  status |-> 0, body |-> <<>>, tasks |-> <<>>]
    /\ UNCHANGED << chatVars, resp, issued, regop, wire, jobs, mw >>

\* validate_file_upload
ValidateFileUpload ==
    /\ upload.stage = "posted"
    /\ LET st == UploadStatus(upload.size, upload.content_type) IN
       upload' =
          IF st = 413
          THEN [upload EXCEPT !.stage = "answered", !.status = 413,
                   !.body = [detail |-> "File is too large", size |-> upload.size]]
          ELSE IF st = 400
          THEN [upload EXCEPT !.stage = "answered", !.status = 400,
                   !.body = [detail |-> "Unsupportable file format",
                             content_type |-> upload.content_type]]
          ELSE [upload EXCEPT !.stage = "answered", !.status = 200,
                   !.body = [filename |-> upload.filename, size |-> upload.size],
                   !.tasks = << [task |-> "process_image",
                                 format_type |-> LastPart(upload.filename),
                                 dimensions |-> <<upload.width, upload.height>>] >>]
    /\ UNCHANGED << chatVars, resp, issued, regop, wire, jobs, mw >>

\* The response is sent; the tasks of the request then run.
RunBackgroundTasks ==
    /\ upload.stage = "answered"
    /\ upload.tasks # <<>>
    /\ upload' = [upload EXCEPT !.stage = "processed"]
    /\ UNCHANGED << chatVars, resp, issued, regop, wire, jobs, mw >>

NextUpload ==
    \/ \E size \in UploadSizes, ct \in ContentTypes, fn \in FileNames,
          w \in Dimensions, h \in Dimensions : PostUpload(size, ct, fn, w, h)
    \/ ValidateFileUpload
    \/ RunBackgroundTasks

SpecUpload == Init /\ [][NextUpload]_vars

\* ======================================================================
\* Two frames of one sender
\* ======================================================================
(* The chat from the state where the three users have signed up and the     *)
(* first two are connected, each with its own token, and wait in            *)
(* receive_json: the first has received the join notice of the second.      *)
(* From there the handlers run as in Spec, with room for a second frame.    *)
InitOrder ==
    LET d1 == <<[key |-> TokenSeq[1], val |-> 1]>>
        d2 == Append(d1, [key |-> TokenSeq[2], val |-> 2])
        joined1 == Frame("joined", NameSeq[1], <<>>, 1, 0)
        joined2 == Frame("joined", NameSeq[2], <<>>, 2, 0)
        rest == Conns \ {1, 2}
    IN
    /\ users = [i \in 1..3 |-> [name |-> NameSeq[i], token |-> TokenSeq[i]]]
    /\ active_connections = d2
    /\ pc = [c \in Conns |-> IF c \in rest THEN "init" ELSE "recv"]
    /\ hname = [c \in Conns |-> IF c \in rest THEN "" ELSE NameSeq[c]]
    /\ htoken = [c \in Conns |-> IF c \in rest THEN None ELSE TokenSeq[c]]
    /\ peerClosed = [c \in Conns |-> FALSE]
    /\ closeCode = [c \in Conns |-> 0]
    /\ iter = [c \in Conns |->
                 IF c = 1 THEN [pos |-> 0, used |-> 1, len |-> 1,
                                excl |-> {TokenSeq[1]}, frame |-> joined1]
                 ELSE IF c = 2 THEN [pos |-> 1, used |-> 2, len |-> 1,
                                     excl |-> {TokenSeq[2]}, frame |-> joined2]
                 ELSE NoIter]
    /\ local = [c \in Conns |-> NoLocal]
    /\ inbox = [c \in Conns |-> IF c = 1 THEN <<joined2>> ELSE <<>>]
    /\ nframes = 0
    /\ running = 0
    /\ op = [c \in Conns |->
               IF c = 1 THEN [kind |-> "join", id |-> 0, view |-> d1,
                              state |-> "done", failed |-> {}, target |-> 0]
               ELSE IF c = 2 THEN [kind |-> "join", id |-> 0, view |-> d2,
                                   state |-> "done", failed |-> {}, target |-> 0]
               ELSE NoOp]
    /\ teardowns = [c \in Conns |-> 0]
    /\ resp = NoResponse
    /\ issued = {}
    /\ regop = NoRegOp
    /\ wire = NoWire
    /\ upload = NoUpload
    /\ jobs = NoJobs
    /\ mw = NoRequests

NextOrder ==
    \/ \E c \in Conns, n \in Names, t \in Tokens : Connect(c, n, t)
    \/ \E c \in Conns : LoopStep(c)
    \/ \E c \in Conns, f \in InboundFrames : ReceiveUpTo(c, f, MaxOrderFrames)
    \/ \E c \in Conns : Echo(c)
    \/ \E c \in Conns : ClientClose(c)
    \/ \E c \in Conns : Disconnect(c)
    \/ \E c \in Conns : Teardown(c)

SpecOrder == InitOrder /\ [][NextOrder]_vars

\* ======================================================================
\* background.py: job_queue and execute_job_queue
\* ======================================================================
(* job_queue is an asyncio.Queue without a bound: queue holds the jobs in   *)
(* the order of put, unfinished is its count of unfinished tasks (put adds  *)
(* one, task_done takes one).  Jobs are numbered as they are scheduled.     *)
(* worker is the job execute_job_queue awaits, 0 while it waits in get().   *)
(* ran is history: the jobs that have ended, with how they ended.           *)

\* How awaiting a job ends: it returns, or it raises an Exception.
JobOutcomes == {"ok", "Exception"}

\* POST /schedule-job/: await job_queue.put(execute())
ScheduleBackgroundJob ==
    /\ jobs.scheduled < MaxJobs
    /\ jobs' = [jobs EXCEPT !.scheduled = @ + 1,
                            !.queue = Append(@, jobs.scheduled + 1),
                            !.unfinished = @ + 1]
    /\ UNCHANGED << chatVars, resp, issued, regop, wire, upload, mw >>

\* job = await job_queue.get()
WorkerGet ==
    /\ jobs.worker = 0
    /\ jobs.queue # <<>>
    /\ jobs' = [jobs EXCEPT !.worker = Head(jobs.queue),
                            !.queue = Tail(jobs.queue)]
    /\ UNCHANGED << chatVars, resp, issued, regop, wire, upload, mw >>

(* await job ends: task_done() is called in the else branch only, so not    *)
(* for a job that raised; then the loop returns to get().                   *)
WorkerFinish(outcome) ==
    /\ jobs.worker # 0
    /\ jobs' = [jobs EXCEPT
                  !.ran = Append(@, [job |-> jobs.worker, outcome |-> outcome]),
                  !.unfinished = IF outcome = "ok" THEN @ - 1 ELSE @,
                  !.worker = 0]
    /\ UNCHANGED << chatVars, resp, issued, regop, wire, upload, mw >>

NextJobs ==
    \/ ScheduleBackgroundJob
    \/ WorkerGet
    \/ \E o \in JobOutcomes : WorkerFinish(o)

SpecJobs == Init /\ [][NextJobs]_vars

\* ======================================================================
\* middleware.py: the trace id of a request
\* ======================================================================
(* The middleware added last is the outermost: a request passes             *)
(* add_process_time_header, then log_and_check_header, then add_trace_id,   *)
(* then the route.  Each call_next is an await, where other requests run.   *)
(* A request's trace id (a fresh uuid4) is written as its number.           *)
(* req[r] holds, for request r: where it stands, whether it carries         *)
(* X-Auth-Token, its local trace_id, the trace ids stamped on its log       *)
(* records, and the status and X-Trace-Id header of its response.           *)

\* A request arrives and enters add_process_time_header.
RequestArrives(auth) ==
    /\ Len(mw.req) < MaxRequests
    /\ mw' = [mw EXCEPT !.req = Append(@, [pc |-> "new", auth |-> auth,
                                           trace |-> 0, log |-> <<>>,
                                           status |-> 0, xtrace |-> 0])]
    /\ UNCHANGED << chatVars, resp, issued, regop, wire, upload, jobs >>

(* log_and_check_header: logger.info, whose record TraceIdFilter stamps     *)
(* with trace_id_var.get("trace_id", "no-trace"); then 400 without calling  *)
(* further when X-Auth-Token is missing.                                    *)
LogAndCheckHeader(r) ==
    /\ r \in DOMAIN mw.req
    /\ mw.req[r].pc = "new"
    /\ mw' = [mw EXCEPT
                !.req[r].log = Append(@, mw.trace_id_var),
                !.req[r].pc = IF mw.req[r].auth THEN "checked" ELSE "done",
                !.req[r].status = IF mw.req[r].auth THEN 0 ELSE 400]
    /\ UNCHANGED << chatVars, resp, issued, regop, wire, upload, jobs >>

\* add_trace_id up to its call_next: a fresh id, stored in trace_id_var.
AddTraceId(r) ==
    /\ r \in DOMAIN mw.req
    /\ mw.req[r].pc = "checked"
    /\ mw' = [mw EXCEPT !.trace_id_var = r,
                        !.req[r].trace = r,
                        !.req[r].pc = "traced"]
    /\ UNCHANGED << chatVars, resp, issued, regop, wire, upload, jobs >>

\* The route answers and add_trace_id sets X-Trace-Id from its local.
RouteResponds(r) ==
    /\ r \in DOMAIN mw.req
    /\ mw.req[r].pc = "traced"
    /\ mw' = [mw EXCEPT !.req[r].status = 200,
                        !.req[r].xtrace = mw.req[r].trace,
                        !.req[r].pc = "done"]
    /\ UNCHANGED << chatVars, resp, issued, regop, wire, upload, jobs >>

NextTrace ==
    \/ \E auth \in BOOLEAN : RequestArrives(auth)
    \/ \E r \in 1..MaxRequests : LogAndCheckHeader(r)
    \/ \E r \in 1..MaxRequests : AddTraceId(r)
    \/ \E r \in 1..MaxRequests : RouteResponds(r)

SpecTrace == Init /\ [][NextTrace]_vars

\* ======================================================================
\* Properties
\* ======================================================================

\* Frames in the inbox of connection w that handler c sent for inbound frame
\* id (0: its presence notices), of format fmt / of any format.
Received(w, c, id, fmt) ==
    Cardinality({i \in DOMAIN inbox[w] :
                   /\ inbox[w][i].by = c
                   /\ inbox[w][i].id = id
                   /\ inbox[w][i].fmt = fmt})
FramesFor(w, c, id) ==
    Cardinality({i \in DOMAIN inbox[w] :
                   inbox[w][i].by = c /\ inbox[w][i].id = id})

Registered(c) ==
    \E i \in DictLive(active_connections) : active_connections[i].val = c

(* The registry is the one handler c's last operation started with, and     *)
(* every connection in it is live.  The registry never returns to an        *)
(* earlier value and a dead connection stays dead, so this says that the    *)
(* membership did not change and no transport closed during the operation.  *)
MembershipStable(c) ==
    /\ active_connections = op[c].view
    /\ \A i \in DictLive(op[c].view) : Alive(op[c].view[i].val)

(* C1: with N connected users, each with its own credential and all in the  *)
(* registry, a broadcast (a frame without "to") from one of them is         *)
(* delivered exactly once to each of the N-1 others and never to the        *)
(* sender's own connection.                                                 *)
C1_BroadcastReachesOthersOnce ==
    \A c \in Conns :
       op[c].kind = "bcast" =>
          /\ Received(c, c, op[c].id, "msg") = 0
          /\ ( /\ op[c].state = "done"
               /\ MembershipStable(c)
               /\ DictHas(op[c].view, htoken[c])
               /\ DictGet(op[c].view, htoken[c]) = c )
             => \A i \in DictLive(op[c].view) :
                   LET w == op[c].view[i].val IN
                   /\ FramesFor(w, c, op[c].id) = IF w = c THEN 0 ELSE 1
                   /\ Received(w, c, op[c].id, "msg") = IF w = c THEN 0 ELSE 1

\* C1's case: a broadcast among three connected users has completed.
C1_Witness ==
    \E c \in Conns :
       /\ op[c].kind = "bcast" /\ op[c].state = "done"
       /\ MembershipStable(c)
       /\ DictHas(op[c].view, htoken[c]) /\ DictGet(op[c].view, htoken[c]) = c
       /\ DictUsed(op[c].view) = 3
       /\ \A w \in Conns \ {c} : Received(w, c, op[c].id, "msg") = 1

(* C2: a handshake whose credential fails validation is closed with code    *)
(* 1008 and is terminal: it never adds an entry to the registry, no join    *)
(* notice is sent on its behalf, and the handler takes no further step.     *)
C2_RejectedState ==
    \A c \in Conns :
       /\ (pc[c] # "init" /\ ~TokenExists(htoken[c])) => pc[c] = "rejected"
       /\ pc[c] \in {"init", "rejected"} =>
             /\ ~Registered(c)
             /\ teardowns[c] = 0
             /\ \A w \in Conns : FramesFor(w, c, 0) = 0
       /\ pc[c] = "rejected" <=> closeCode[c] = 1008

C2_InvalidCredentialRejected ==
    /\ []C2_RejectedState
    /\ [][\A c \in Conns : pc[c] = "rejected" => pc'[c] = "rejected"]_vars

\* C2's case: a handshake was refused while another connection was registered.
C2_Witness ==
    \E c, w \in Conns :
       /\ pc[c] = "rejected" /\ ~TokenExists(htoken[c])
       /\ pc[w] = "recv" /\ Registered(w)

\* The users table holds the row (name, token).
CredentialOf(name, token) ==
    \E i \in DOMAIN users : users[i].name = name /\ users[i].token = token

(* C3: a handshake (name, credential) whose credential does not validate    *)
(* for that name is rejected with close code 1008 and never registered, so  *)
(* every frame sent under a name comes from a holder of that name's         *)
(* credential.                                                              *)
C3_CredentialBoundToName ==
    \A c \in Conns :
       /\ (pc[c] # "init" /\ ~CredentialOf(hname[c], htoken[c])) =>
             /\ pc[c] = "rejected"
             /\ closeCode[c] = 1008
             /\ ~Registered(c)
       /\ \A w \in Conns : \A i \in DOMAIN inbox[w] :
             (inbox[w][i].by = c /\ inbox[w][i].fmt \in {"joined", "msg", "left"})
                => CredentialOf(inbox[w][i].name, htoken[c])

(* C4: a unicast to a name that is registered without a connection in the   *)
(* registry, or that is not registered, yields exactly one offline notice   *)
(* delivered to the sender and no frame to any other connection.            *)
C4_OfflineNoticeToSenderOnly ==
    \A c \in Conns :
       op[c].kind = "offline" =>
          /\ Received(c, c, op[c].id, "offline") = 1
          /\ \A w \in Conns \ {c} : FramesFor(w, c, op[c].id) = 0

(* C5: a unicast to a name whose credential has a connection in the         *)
(* registry delivers exactly one "{sender} >>> {body}" frame to that        *)
(* connection and exactly one echo to the sender's connection, and nothing  *)
(* to a third connection.  (Stated for the unicasts to another user none of *)
(* whose sends met a closed transport.)                                     *)
C5_UnicastDeliversAndEchoes ==
    \A c \in Conns :
       ( /\ op[c].kind = "ucast" /\ op[c].state = "done" /\ op[c].failed = {}
         /\ htoken[op[c].target] # htoken[c] ) =>
          /\ Received(op[c].target, c, op[c].id, "msg") = 1
          /\ Received(c, c, op[c].id, "echo") = 1
          /\ \A w \in Conns \ {c, op[c].target} : FramesFor(w, c, op[c].id) = 0

(* C6: after a user's connection has closed (its handler has ended), the    *)
(* registry no longer holds that connection under the user's credential,    *)
(* so a unicast to the user's name finds the user offline.                  *)
C6_ClosedConnectionNotRegistered ==
    \A c \in Conns : pc[c] \in {"closed", "crashed"} => ~Registered(c)

(* C7: for every connection that was registered, teardown runs exactly once *)
(* however its end is detected: when its handler has ended,                 *)
(* terminate_connection has run once for it, not zero times and not twice.  *)
C7_TeardownExactlyOnce ==
    \A c \in Conns :
       /\ teardowns[c] <= 1
       /\ pc[c] \in {"closed", "crashed"} => teardowns[c] = 1

(* C8: a connection added for a credential that already has an entry evicts *)
(* the existing connection: at no instant are two live connections open for *)
(* the same credential.                                                     *)
C8_OneLiveConnectionPerCredential ==
    \A c, b \in Conns :
       (c # b /\ htoken[c] = htoken[b]) => ~(Alive(c) /\ Alive(b))

(* C9: a delivery failure to one recipient of a broadcast (its transport is *)
(* closed) does not abort the broadcast: once the broadcast has ended,      *)
(* every other live connection of its membership has received the message   *)
(* exactly once.  (Stated for the broadcasts whose membership did not       *)
(* change.)                                                                 *)
C9_FailureDoesNotAbortBroadcast ==
    \A c \in Conns :
       ( /\ op[c].kind = "bcast"
         /\ op[c].state \in {"done", "aborted"}
         /\ op[c].failed # {}
         /\ active_connections = op[c].view )
       => \A i \in DictLive(op[c].view) :
             LET w == op[c].view[i].val IN
             (op[c].view[i].key # htoken[c] /\ w \notin op[c].failed /\ Alive(w))
                => Received(w, c, op[c].id, "msg") = 1

(* C10: while a broadcast is in flight, handlers that connect or disconnect *)
(* other credentials never make it fault, and every stable member receives  *)
(* the message exactly once.  (Stated for the broadcasts every member of    *)
(* whose starting membership is stable: still registered, and live.)        *)
C10_ChurnNeverFaultsBroadcast ==
    \A c \in Conns :
       ( /\ op[c].kind = "bcast"
         /\ \A i \in DictLive(op[c].view) :
               /\ i \in DictLive(active_connections)
               /\ active_connections[i] = op[c].view[i]
               /\ op[c].view[i].val # c => Alive(op[c].view[i].val) )
       => /\ op[c].state # "fault"
          /\ op[c].state = "done" =>
                \A i \in DictLive(op[c].view) :
                   op[c].view[i].key # htoken[c] =>
                      Received(op[c].view[i].val, c, op[c].id, "msg") = 1

(* C11: an inbound frame that cannot be decoded is dropped: the connection  *)
(* stays Active (its handler is back at receive_json) and in the registry,  *)
(* and nothing is delivered for that frame.                                 *)
C11_MalformedFrameDropped ==
    \A c \in Conns :
       op[c].kind = "bad" =>
          /\ pc[c] \in Active
          /\ DictHas(active_connections, htoken[c])
          /\ \A w \in Conns : FramesFor(w, c, op[c].id) = 0

(* The accepted handlers that only a peer's close can have disturbed: their *)
(* own peer has not closed the transport, and no handler has ended on a     *)
(* malformed frame or on a registry that changed size under its iteration.  *)
Undisturbed(c) ==
    /\ pc[c] \notin {"init", "rejected"}
    /\ ~peerClosed[c]
    /\ \A b \in Conns : op[b].kind # "bad" /\ op[b].state # "fault"

(* C12: closing one connection's transport drives only that connection's    *)
(* handler out of Active: every other handler stays in Active (neither      *)
(* ended nor in its teardown), a handler sending to the closed transport    *)
(* included, and no other credential's registry entry is removed.           *)
C12_CloseAffectsOnlyItsHandler ==
    \A c \in Conns :
       Undisturbed(c) =>
          /\ pc[c] \in {"join", "recv", "bcast", "echo"}
          /\ (\A b \in Conns : htoken[b] = htoken[c] => ~peerClosed[b])
                => DictHas(active_connections, htoken[c])

\* The text holds pat as a substring.
Contains(text, pat) ==
    \E i \in 1..(Len(text) - Len(pat) + 1) :
       SubSeq(text, i, i + Len(pat) - 1) = pat

(* C13: no raw markup is delivered: in no frame the server sends (message,  *)
(* echo, offline notice, join and left notices) does the raw substring      *)
(* "<script>" appear, whatever the clients supplied.                        *)
C13_NoRawScriptDelivered ==
    wire.stage = "out" => ~Contains(wire.text, ScriptTag)

\* The body part of a delivered message: the text after "{sender} >>> ".
BodyPart(w) == SubSeq(w.text, Len(w.name) + Len(Arrow) + 1, Len(w.text))

\* How many of the first k characters of s are the character ch.
CountOf(s, k, ch) == Cardinality({i \in 1..k : s[i] = ch})

(* C14, as stated: for every inbound body, the body part of the delivered   *)
(* frame has length at most 500, and exactly 500 when the inbound body has  *)
(* 600 characters.                                                          *)
C14_DeliveredBodyAtMost500 ==
    (wire.stage = "out" /\ wire.fmt = "msg") =>
       /\ Len(BodyPart(wire)) <= 500
       /\ Len(wire.message) = LongBodyLen => Len(BodyPart(wire)) = 500

(* C14, amended: the body is cut to its first 500 characters and then       *)
(* escaped, so the delivered body part stands for at most 500 inbound       *)
(* characters; each & < > of them takes 5, 4, 4 characters and each quote   *)
(* 6.  Its length is at most 500, and exactly 500 for a body of 500         *)
(* characters or more, when none of the characters kept is one of those.    *)
C14_TruncatedThenEscaped ==
    (wire.stage = "out" /\ wire.fmt = "msg") =>
       LET m == wire.message
           k == IF Len(m) < 500 THEN Len(m) ELSE 500
           grown == 4 * CountOf(m, k, "&") + 3 * CountOf(m, k, "<")
                    + 3 * CountOf(m, k, ">") + 5 * CountOf(m, k, "\"")
                    + 5 * CountOf(m, k, "'")
       IN /\ Len(BodyPart(wire)) = k + grown
          /\ grown = 0 => Len(BodyPart(wire)) <= 500
          /\ (grown = 0 /\ Len(m) >= 500) => Len(BodyPart(wire)) = 500

\* C14's case: a body of 600 plain characters was delivered as 500.
C14_Witness ==
    /\ wire.stage = "out" /\ wire.fmt = "msg"
    /\ wire.message = Rep("a", LongBodyLen)
    /\ BodyPart(wire) = Rep("a", 500)

\* Rows of the users table that hold the name.
RowsOf(name) == {i \in DOMAIN users : users[i].name = name}

(* C15: a signup for a name already registered fails with status 400,       *)
(* issues no credential and changes no state; after any sequence of         *)
(* signups exactly one credential exists for each registered name.          *)
C15_OneRowPerName ==
    /\ \A n \in SignupNames : Cardinality(RowsOf(n)) <= 1
    /\ \A i \in DOMAIN users : Cardinality(RowsOf(users[i].name)) = 1

C15_DuplicateSignupRefused ==
    /\ []C15_OneRowPerName
    /\ [][\A n \in SignupNames, t \in Tokens :
             (RowsOf(n) # {} /\ CreateUserAccount(n, t)) =>
                /\ resp'.status = 400
                /\ resp'.token = None
                /\ users' = users
                /\ issued' = issued]_vars

\* C15's case: a second signup for a registered name was answered 400.
C15_Witness ==
    /\ resp.call = "signup" /\ resp.status = 400
    /\ RowsOf(resp.arg) # {}
    /\ Len(users) >= 2

(* C16: every token a successful signup returned (32 characters) validates  *)
(* afterwards, verify_access_token returning that same token, and a token   *)
(* never issued validates to None.                                          *)
C16_IssuedTokensValidate ==
    /\ \A t \in Tokens :
          VerifyAccessToken(t) = IF t \in issued THEN t ELSE None
    /\ resp.call = "verify" =>
          resp.token = IF resp.arg \in issued THEN resp.arg ELSE None
    /\ (resp.call = "signup" /\ resp.status = 200) =>
          /\ resp.len = 32
          /\ resp.token \in issued

\* C16's case: an issued token and a token never issued were both looked up.
C16_Witness ==
    /\ resp.call = "verify" /\ resp.arg \in issued /\ resp.token = resp.arg
    /\ \E t \in Tokens : t \notin issued /\ VerifyAccessToken(t) = None

(* C17: removing a credential from the registry is idempotent: removing an  *)
(* absent credential leaves the registry unchanged (and is no error: the    *)
(* call always returns), and removing a credential a second time leaves the *)
(* registry the first removal left.                                         *)
C17_RemoveIdempotent ==
    /\ regop.kind = "remove" =>
          /\ ~DictHas(active_connections, regop.key)
          /\ ~DictHas(regop.before, regop.key)
                => active_connections = regop.before
          /\ DictPop(active_connections, regop.key) = active_connections
    /\ \A k \in Tokens :
          DictPop(DictPop(active_connections, k), k)
             = DictPop(active_connections, k)

\* C17's case: a credential removed before was removed again, others present.
C17_Witness ==
    /\ regop.kind = "remove"
    /\ ~DictHas(regop.before, regop.key)
    /\ \E i \in DOMAIN regop.before : regop.before[i] = Tombstone
    /\ DictUsed(regop.before) >= 1
    /\ active_connections = regop.before

C19_NothingSentForEmpty ==
    \A c \in Conns :
       op[c].kind = "empty" =>
          \A w \in Conns : FramesFor(w, c, op[c].id) = 0

C19_EmptyBodyIsNoOp ==
    /\ []C19_NothingSentForEmpty
    /\ [][\A c \in Conns, f \in InboundFrames :
             (f.ok /\ f.message = <<>> /\ Receive(c, f)) =>
                /\ inbox' = inbox
                /\ active_connections' = active_connections
                /\ pc' = pc
                /\ pc'[c] = "recv"
                /\ op'[c].kind = "empty"]_vars

\* C19's case: an empty frame addressed to a connected user was dropped.
C19_Witness ==
    \E c, w \in Conns :
       /\ c # w
       /\ op[c].kind = "empty" /\ pc[c] = "recv" /\ Registered(c)
       /\ pc[w] = "recv" /\ Registered(w)
       /\ inbox[w] = <<>>

(* C20: validate_file_upload answers 413 for every upload larger than       *)
(* MAX_IMAGE_SIZE whatever its content type, 400 for an upload within the   *)
(* limit whose content type is not allowed, and 200 with the file's name    *)
(* and size otherwise; the image task is scheduled only with the 200.       *)
C20_UploadAnswers ==
    upload.stage \in {"answered", "processed"} =>
       /\ upload.size > 10485760 => upload.status = 413
       /\ (upload.size <= 10485760
           /\ upload.content_type \notin {"image/jpeg", "image/png"})
             => upload.status = 400
       /\ (upload.size <= 10485760
           /\ upload.content_type \in {"image/jpeg", "image/png"})
             => /\ upload.status = 200
                /\ upload.body = [filename |-> upload.filename,
                                  size |-> upload.size]
       /\ upload.tasks # <<>> <=> upload.status = 200
       /\ Len(upload.tasks) <= 1
       /\ upload.stage = "processed" => upload.status = 200

\* C20's case: an upload too large and of a type not allowed was answered.
C20_Witness ==
    /\ upload.stage = "answered"
    /\ upload.size > MAX_IMAGE_SIZE
    /\ upload.content_type \notin ALLOWED_IMAGE_TYPES
    /\ upload.status = 413
    /\ upload.tasks = <<>>

\* The handlers in their Active loop, none of them run halfway to an await.
InActiveLoop(c) == pc[c] \in {"join", "recv", "bcast", "echo"}

(* C21: registry consistency under any interleaving of connects, messages   *)
(* and disconnects, a second connect with a connected credential included:  *)
(* a credential is in the registry if and only if a handler for it is in    *)
(* its Active loop, and the handle stored is the transport of such a        *)
(* handler; the teardown of an older connection never removes the entry of  *)
(* a newer one.  (Stated where no handler has ended on an exception, and    *)
(* at the awaits: no handler is between an exception and its teardown.)     *)
C21_RegistryConsistent ==
    (running = 0 /\ \A c \in Conns : pc[c] \notin {"crashed", "except"}) =>
       \A t \in Tokens :
          /\ DictHas(active_connections, t)
                <=> \E c \in Conns : htoken[c] = t /\ InActiveLoop(c)
          /\ DictHas(active_connections, t) =>
                LET w == DictGet(active_connections, t) IN
                htoken[w] = t /\ InActiveLoop(w)

(* C22: every key of the registry is a credential a successful signup       *)
(* issued (it has its row in users): no handshake, message or disconnect    *)
(* puts a credential never issued into active_connections.                  *)
C22_RegistryKeysIssued ==
    \A k \in DictKeys(active_connections) :
       /\ k \in Tokens
       /\ \E i \in DOMAIN users : users[i].token = k

\* C22's case: a handshake with a token never issued came while two issued
\* credentials were registered.
C22_Witness ==
    /\ \E c \in Conns :
          /\ pc[c] = "rejected"
          /\ \A i \in DOMAIN users : users[i].token # htoken[c]
    /\ DictUsed(active_connections) = 2

(* C23: per-sender ordering: when a connection sends frame m1 and later     *)
(* frame m2 and both are delivered to the same connection (by broadcast or  *)
(* unicast), that connection receives m1 before m2, whatever the handlers   *)
(* of other connections do in between.                                      *)
C23_PerSenderOrder ==
    \A w \in Conns : \A i, j \in DOMAIN inbox[w] :
       ( /\ inbox[w][i].by = inbox[w][j].by
         /\ inbox[w][i].fmt = "msg" /\ inbox[w][j].fmt = "msg"
         /\ inbox[w][i].id < inbox[w][j].id )
       => i < j

\* C23's case: a connection received two messages of one sender, and the
\* notice of another handler between them.
C23_Witness ==
    \E w \in Conns : \E i, j, k \in DOMAIN inbox[w] :
       /\ i < k /\ k < j
       /\ inbox[w][i].fmt = "msg" /\ inbox[w][j].fmt = "msg"
       /\ inbox[w][i].by = inbox[w][j].by
       /\ inbox[w][i].id = 1 /\ inbox[w][j].id = 2
       /\ inbox[w][k].by # inbox[w][i].by

(* C24: the worker runs the jobs put on job_queue one at a time and in the  *)
(* order they were scheduled, a job that raises does not stop it from       *)
(* running the jobs after it, and once all scheduled jobs have finished     *)
(* the queue's count of unfinished tasks is zero.                           *)
C24_WorkerDrainsQueue ==
    /\ \A i \in DOMAIN jobs.ran : jobs.ran[i].job = i
    /\ jobs.worker # 0 => jobs.worker = Len(jobs.ran) + 1
    /\ (Len(jobs.ran) = jobs.scheduled /\ jobs.worker = 0 /\ jobs.queue = <<>>)
          => jobs.unfinished = 0

(* C25: trace ids are per request: every log record emitted while a request *)
(* is handled carries the trace id generated for that request, the one its  *)
(* X-Trace-Id header returns, and every response, the 400 for a missing     *)
(* X-Auth-Token included, carries an X-Trace-Id header.                     *)
C25_TraceIdPerRequest ==
    \A r \in DOMAIN mw.req :
       mw.req[r].pc = "done" =>
          /\ mw.req[r].xtrace # 0
          /\ \A i \in DOMAIN mw.req[r].log : mw.req[r].log[i] = mw.req[r].xtrace

====
